---- MODULE Spec2Model ----
(***************************************************************************)
(* Verification model of youtalk/autoware.universe:                        *)
(*   sensing/pointcloud_preprocessor  RingOutlierFilterComponent           *)
(*   planning/mission_planner         MissionPlanner                       *)
(*                                                                         *)
(* Units.  Azimuths are float32 centidegrees, kept in ticks of 2^-10       *)
(* centidegree so that the rounding of float32 sums near 36000 is visible. *)
(* Lengths (x, y, z, distance, thresholds) are decimetres,                 *)
(* so the default object_length_threshold 0.1 m is 1 and max_distance      *)
(* 12.0 m is 120.  distance_ratio is in hundredths (1.03 is 103).          *)
(* Buffer sizes are bytes; a buffer's data is kept as its sequence of      *)
(* point_step-sized slots.                                                 *)
(***************************************************************************)
EXTENDS Integers, Sequences, FiniteSets, TLC

\* ------------------------------------------------------------------ bounds
MaxPoints == 3
MaxParams == 1

\* ------------------------------------------------------- program constants
PointStep == 16
horizontal_bins == 36
FullCircle == 36000
AzimuthTolerance == 100
MaxCellCount == 255

\* max_rings_num is declared once at construction and never updated.
max_rings_num_ == 2

\* float32 azimuths: one centidegree is TicksPerCd ticks.
TicksPerCd == 1024
Cd(x) == x * TicksPerCd

\* The float32 nearest to a value of magnitude below 65536 centidegrees
\* (round to nearest, ties to even): the spacing of float32 is 2^-10 below
\* 16384, 2^-9 below 32768 and 2^-8 from there on.
Float32Round(t) ==
  LET a == IF t < 0 THEN 0 - t ELSE t
      s == IF a < Cd(16384) THEN 1 ELSE IF a < Cd(32768) THEN 2 ELSE 4
      q == a \div s
      r == a % s
      up == (2 * r > s) \/ (2 * r = s /\ q % 2 = 1)
      m == (IF up THEN q + 1 ELSE q) * s
  IN  IF t < 0 THEN 0 - m ELSE m

Max2(a, b) == IF a > b THEN a ELSE b
Min2(a, b) == IF a < b THEN a ELSE b

\* ----------------------------------------------------------------- inputs
\* A decoded PointXYZIRADRT record.
Pt(r, a, d, px, py, pz, i) ==
  [ring |-> r, azimuth |-> a, distance |-> d, x |-> px, y |-> py, z |-> pz,
   intensity |-> i]

\* Representative points: three on ring 0 (a continuous pair, then a 150
\* centidegree jump), one on ring 1 at 180 degrees, and one whose ring id
\* equals max_rings_num.
PointPool ==
  { Pt(0, Cd(0), 100, 100, 0, 10, 1),
    Pt(0, Cd(50), 101, 101, 0, 10, 2),
    Pt(0, Cd(200), 101, 103, 0, 10, 3),
    Pt(1, Cd(18000), 50, -50, 1, 5, 4),
    Pt(max_rings_num_, Cd(9000), 50, 0, 50, 5, 5) }

PointSeqs == UNION { [1..n -> PointPool] : n \in 0..MaxPoints }

\* An incoming PointCloud2 (height 1) with the transform the caller passes.
FramesOf(fieldCases, transformCases) ==
  { [points |-> s, width |-> Len(s), hasFields |-> hf, need_transform |-> nt] :
      s \in PointSeqs, hf \in fieldCases, nt \in transformCases }

Frames == FramesOf(BOOLEAN, BOOLEAN)
VisFrames == FramesOf({TRUE}, {FALSE})

\* Frames of one ring whose raw azimuths sit at both ends of [0, 36000):
\* 359.5 degrees, 0.5 degrees, 0, and the float32 value 2^-10 centidegree.
WrapPool ==
  { Pt(0, Cd(35950), 100, 100, 0, 10, 1),
    Pt(0, Cd(50), 100, 100, 0, 10, 2),
    Pt(0, Cd(0), 100, 100, 0, 10, 3),
    Pt(0, 1, 100, 100, 0, 10, 4) }

WrapFrames ==
  { [points |-> s, width |-> Len(s), hasFields |-> TRUE, need_transform |-> FALSE] :
      s \in UNION { [1..n -> WrapPool] : n \in 0..MaxPoints } }

NoFrame == [points |-> << >>, width |-> 0, hasFields |-> TRUE, need_transform |-> FALSE]

\* The output cloud object the caller hands in: default constructed.
EmptyCloud == [point_step |-> 0, data |-> << >>, width |-> 0, height |-> 0]

ZeroSlot == [x |-> 0, y |-> 0, z |-> 0, intensity |-> 0, written |-> FALSE]

\* std::vector::resize on the data bytes, in slots of `step` bytes.
ResizeData(data, bytes, step) ==
  LET n == bytes \div step
  IN  IF n <= Len(data) THEN SubSeq(data, 1, n)
      ELSE data \o [k \in 1..(n - Len(data)) |-> ZeroSlot]

DataBytes(cloud) == Len(cloud.data) * cloud.point_step

\* ---------------------------------------------------------- configuration
\* roi_mode_map_ of the component's header: mode name to switch key.
roi_mode_map(mode) ==
  CASE mode = "No_ROI" -> 0
    [] mode = "Fixed_xyz_ROI" -> 1
    [] mode = "Fixed_azimuth_ROI" -> 2
    [] OTHER -> 0

\* The parameters declared by the constructor, at their defaults.
DefaultConfig ==
  [distance_ratio |-> 103, object_length_threshold |-> 1,
   num_points_threshold |-> 4, publish_noise_points |-> FALSE,
   x_max |-> 180, x_min |-> -120, y_max |-> 20, y_min |-> -20,
   z_max |-> 100, z_min |-> 0,
   min_azimuth_deg |-> 135, max_azimuth_deg |-> 225, max_distance |-> 120,
   vertical_bins |-> 128, max_azimuth_diff |-> 50, noise_threshold |-> 2,
   roi_mode |-> "Fixed_xyz_ROI"]

\* ------------------------------------------------------------ segmentation
\* Lines 147-148: azimuth difference of a consecutive pair, renormalised.
AzimuthDiff(current_azimuth, next_azimuth) ==
  LET azimuth_diff == Float32Round(next_azimuth - current_azimuth)
  IN  IF azimuth_diff < 0 THEN Float32Round(azimuth_diff + Cd(FullCircle))
      ELSE azimuth_diff

\* Lines 155-158: the pair stays in the same walk.
Continuity(current, next, c) ==
  /\ Max2(current.distance, next.distance) * 100
       < Min2(current.distance, next.distance) * c.distance_ratio
  /\ AzimuthDiff(current.azimuth, next.azimuth) < Cd(AzimuthTolerance)

\* Cluster Classifier (declared in the component's header): kept when the
\* walk has enough points or its two ends are far enough apart.
isCluster(first_point, last_point, walk_size, c) ==
  LET dx == first_point.x - last_point.x
      dy == first_point.y - last_point.y
      dz == first_point.z - last_point.z
  IN  \/ walk_size >= c.num_points_threshold
      \/ dx * dx + dy * dy + dz * dz
           >= c.object_length_threshold * c.object_length_threshold

\* transform_info.eigen_transform: a fixed rigid transform (a translation).
EigenTransform(p) == [x |-> p.x + 7, y |-> p.y - 3, z |-> p.z + 1]

\* Lines 166-182 (and 186-202): one PointXYZI written to a buffer.
WritePoint(p, intensity_of, need_transform) ==
  LET q == IF need_transform THEN EigenTransform(p) ELSE [x |-> p.x, y |-> p.y, z |-> p.z]
  IN  [x |-> q.x, y |-> q.y, z |-> q.z, intensity |-> intensity_of.intensity,
       written |-> TRUE]

\* The in-loop close where a kept walk writes its first point once per
\* member, as the rejected branch does.
CloseWalkInLoop_FirstPointOnly(indices, first, last, acc, c, need_transform) ==
  LET kept == isCluster(indices[first + 1], indices[last + 1], last - first + 1, c)
      w == [ring |-> indices[1].ring, first |-> first, last |-> last,
            kept |-> kept, tail |-> FALSE]
  IN  [walks |-> Append(acc.walks, w),
       out |-> IF kept
               THEN acc.out \o [k \in 1..(last - first + 1) |->
                      WritePoint(indices[first + 1], indices[first + 1], need_transform)]
               ELSE acc.out,
       noise |-> IF ~kept /\ c.publish_noise_points
                 THEN acc.noise \o [k \in 1..(last - first + 1) |->
                        WritePoint(indices[first + 1], indices[first + 1], need_transform)]
                 ELSE acc.noise]

\* Lines 162-204: a walk [first, last] closed inside the pair loop.
\* Positions are 0-based as in the code; indices is 1-based here.
CloseWalkInLoop(indices, first, last, acc, c, need_transform) ==
  LET kept == isCluster(indices[first + 1], indices[last + 1], last - first + 1, c)
      w == [ring |-> indices[1].ring, first |-> first, last |-> last,
            kept |-> kept, tail |-> FALSE]
  IN  [walks |-> Append(acc.walks, w),
       out |-> IF kept
               THEN acc.out \o [k \in 1..(last - first + 1) |->
                      WritePoint(indices[first + k], indices[first + k], need_transform)]
               ELSE acc.out,
       noise |-> IF ~kept /\ c.publish_noise_points
                 THEN acc.noise \o [k \in 1..(last - first + 1) |->
                        WritePoint(indices[first + 1], indices[first + 1], need_transform)]
                 ELSE acc.noise]

\* The end-of-list close without the walk_first_idx > walk_last_idx test.
CloseWalkAtEnd_NoGuard(indices, first, last, acc, c, need_transform) ==
  LET kept == isCluster(indices[first + 1], indices[last + 1], last - first + 1, c)
      w == [ring |-> indices[1].ring, first |-> first, last |-> last,
            kept |-> kept, tail |-> TRUE]
  IN  [walks |-> Append(acc.walks, w),
       out |-> IF kept
               THEN acc.out \o [k \in 1..(last - first + 1) |->
                      WritePoint(indices[first + k], indices[first + k], need_transform)]
               ELSE acc.out,
       noise |-> IF ~kept /\ c.publish_noise_points
                 THEN acc.noise \o [k \in 1..(last - first) |->
                        WritePoint(indices[first + k], indices[first + k], need_transform)]
                 ELSE acc.noise]

\* Lines 209-251: the walk still open when the pair loop ends.
CloseWalkAtEnd(indices, first, last, acc, c, need_transform) ==
  IF first > last THEN acc
  ELSE
  LET kept == isCluster(indices[first + 1], indices[last + 1], last - first + 1, c)
      w == [ring |-> indices[1].ring, first |-> first, last |-> last,
            kept |-> kept, tail |-> TRUE]
  IN  [walks |-> Append(acc.walks, w),
       out |-> IF kept
               THEN acc.out \o [k \in 1..(last - first + 1) |->
                      WritePoint(indices[first + k], indices[first + k], need_transform)]
               ELSE acc.out,
       noise |-> IF ~kept /\ c.publish_noise_points
                 THEN acc.noise \o [k \in 1..(last - first) |->
                        WritePoint(indices[first + k], indices[first + k], need_transform)]
                 ELSE acc.noise]

\* Lines 136-207: the pair loop of one ring, from position idx on.
RECURSIVE PairLoop(_, _, _, _, _, _)
PairLoop(indices, idx, walk_first_idx, acc, c, need_transform) ==
  IF ~(idx < Len(indices) - 1)
  THEN [walk_first_idx |-> walk_first_idx, walk_last_idx |-> idx - 1, acc |-> acc]
  ELSE IF Continuity(indices[idx + 1], indices[idx + 2], c)
       THEN PairLoop(indices, idx + 1, walk_first_idx, acc, c, need_transform)
       ELSE PairLoop(indices, idx + 1, idx + 1,
                     CloseWalkInLoop(indices, walk_first_idx, idx, acc, c, need_transform),
                     c, need_transform)

\* Lines 131-251: one ring's index list.
SegmentRing(indices, acc, c, need_transform) ==
  IF Len(indices) < 2 THEN acc
  ELSE LET r == PairLoop(indices, 0, 0, acc, c, need_transform)
       IN  CloseWalkAtEnd(indices, r.walk_first_idx, r.walk_last_idx, r.acc,
                          c, need_transform)

\* Lines 130-252: all rings in table order.
RECURSIVE SegmentRings(_, _, _, _, _)
SegmentRings(table, ring, acc, c, need_transform) ==
  IF ring > Len(table) THEN acc
  ELSE SegmentRings(table, ring + 1,
                    SegmentRing(table[ring], acc, c, need_transform),
                    c, need_transform)

EmptyAcc == [walks |-> << >>, out |-> << >>, noise |-> << >>]

\* Lines 121-124 for in-range ring ids: ring r's list is table[r + 1].
SelectSeq2(s, r) == SelectSeq(s, LAMBDA p : p.ring = r)
RingPartition(points) == [r \in 1..max_rings_num_ |-> SelectSeq2(points, r - 1)]

\* Bytes written at offsets 0, step, 2*step, ... of a buffer.
Overlay(data, written) ==
  [k \in 1..Len(data) |-> IF k <= Len(written) THEN written[k] ELSE data[k]]

\* Lines 143-148 over every pair the loop of line 136 visits: the azimuth
\* pairs of the frame with the azimuth_diff computed for each.
PairDiffs(table) ==
  { <<table[r][k].azimuth, table[r][k + 1].azimuth,
      AzimuthDiff(table[r][k].azimuth, table[r][k + 1].azimuth)>> :
      <<r, k>> \in { rk \in (1..Len(table)) \X (1..MaxPoints) :
                      rk[2] < Len(table[rk[1]]) } }

\* ------------------------------------------------------------- visibility
\* Lines 369-387: the azimuth window of the active ROI mode.
AzimuthWindow(c) ==
  IF roi_mode_map(c.roi_mode) = 2
  THEN [min |-> c.min_azimuth_deg * 100, max |-> c.max_azimuth_deg * 100]
  ELSE [min |-> 0, max |-> FullCircle]

\* Lines 390-391: truncating conversion of the sector width.
HorizontalResolution(c) ==
  (AzimuthWindow(c).max - AzimuthWindow(c).min) \div horizontal_bins

\* static_cast<uint>(min_azimuth / horizontal_resolution), lines 428 and 463.
\* With horizontal_resolution = 0 the quotient is infinite or NaN and the
\* conversion is undefined: any 32-bit value may come out (three of them
\* stand for all).
CastOutcomes(c) ==
  IF HorizontalResolution(c) = 0 THEN {0, 1, 2147483647}
  ELSE {AzimuthWindow(c).min \div HorizontalResolution(c)}

\* Lines 428-429: upper azimuth edge of sector i, in unsigned arithmetic.
\* A product with horizontal_resolution = 0 is 0 modulo 2^32 whatever the
\* other factor; otherwise the product is below 2^31 and does not wrap.
SectorEdge(i, c, cast) ==
  IF HorizontalResolution(c) = 0 THEN 0
  ELSE (i + 1 + cast) * HorizontalResolution(c)

\* Lines 432-458: the ROI predicate of the active mode.
RoiPredicate(p, c) ==
  CASE roi_mode_map(c.roi_mode) = 1 ->
         /\ p.x < c.x_max /\ p.x > c.x_min
         /\ p.y > c.y_max /\ p.y < c.y_min
         /\ p.z < c.z_max /\ p.z > c.z_min
    [] roi_mode_map(c.roi_mode) = 2 ->
         /\ p.azimuth < Cd(AzimuthWindow(c).max)
         /\ p.azimuth > Cd(AzimuthWindow(c).min)
         /\ p.distance < c.max_distance
    [] OTHER -> TRUE

\* Lines 423-469: the scan of one sector; cur is current_temp_segment_index.
RECURSIVE SectorScan(_, _, _, _, _, _, _)
SectorScan(ring_points, cur, count, condition, i, c, cast) ==
  IF ~(condition /\ cur < Len(ring_points) - 1)
  THEN [cur |-> cur, count |-> count]
  ELSE LET p == ring_points[cur + 1]
           az == IF p.azimuth < 0 THEN 0 ELSE p.azimuth
           cond == az < Cd(SectorEdge(i, c, cast))
       IN  SectorScan(ring_points, cur + 1,
                      IF cond /\ RoiPredicate(p, c) THEN count + 1 ELSE count,
                      cond, i, c, cast)

\* Lines 419-477: the sectors of one ring, from sector i on.
RECURSIVE SectorLoop(_, _, _, _, _, _)
SectorLoop(ring_points, i, cur, row, c, cast) ==
  IF ~(i < horizontal_bins - 1) THEN row
  ELSE LET r == SectorScan(ring_points, cur, 0, TRUE, i, c, cast)
       IN  SectorLoop(ring_points, i + 1, r.cur,
                      [row EXCEPT ![i] = Min2(r.count, MaxCellCount)], c, cast)

EmptyRow == [i \in 0..(horizontal_bins - 1) |-> 0]

\* Lines 396-478: frequency_image, one row per ring of pcl_noise_ring_array.
FrequencyImage(points, c, cast) ==
  [r \in 0..(c.vertical_bins - 1) |->
     LET single_ring == SelectSeq2(points, r)
     IN  IF single_ring = << >> THEN EmptyRow
         ELSE SectorLoop(single_ring, 0, 0, EmptyRow, c, cast)]

\* Line 483: cv::inRange(frequency_image, noise_threshold_, 255, binary_image).
InRange(v, c) == c.noise_threshold <= v /\ v <= MaxCellCount

BinaryImage(image, c) ==
  [r \in DOMAIN image |-> [i \in DOMAIN image[r] |-> IF InRange(image[r][i], c) THEN 255 ELSE 0]]

\* cv::countNonZero
CountNonZero(image) ==
  Cardinality({rc \in (DOMAIN image) \X (0..(horizontal_bins - 1)) :
                 image[rc[1]][rc[2]] # 0})

\* calculateFilledPixels dividing by one column too few.
calculateFilledPixels_ShortRow(image, vertical_bins, horizontal_bins_arg) ==
  [num |-> CountNonZero(image), den |-> vertical_bins * (horizontal_bins_arg - 1)]

\* Lines 487-494: the filled fraction, kept as numerator and denominator.
calculateFilledPixels(image, vertical_bins, horizontal_bins_arg) ==
  [num |-> CountNonZero(image), den |-> vertical_bins * horizontal_bins_arg]

\* ------------------------------------------------------------------ state
VARIABLES
  mutex_,          \* owner of mutex_: "free" or "faster_filter"
  cfg,             \* the component's parameter members
  pc,              \* position of the frame callback
  input,           \* the frame being processed
  output,          \* the caller's output cloud
  noise_points,    \* the local noise cloud
  output_size,     \* bytes written to output.data
  noise_points_size,
  ring2indices,    \* per-ring lists (as the points themselves)
  walks,           \* log of the walks handed to isCluster, in call order
  published,       \* what went out on the three publishers for this frame
  frequency_image, \* histogram counts of createBinaryImage
  error,           \* exception that ended the frame, or "none"
  oob,             \* ring2indices was indexed at or past its length
  divzero,         \* a division by horizontal_resolution = 0 was evaluated
  reads,           \* <<name, value>> of each parameter read in this frame
  cfgHist,         \* parameter states that existed during this frame
  azimuth_diffs,   \* <<current, next, azimuth_diff>> of each pair of this frame
  set_result,      \* the last SetParametersResult and the request it answers
  \* MissionPlanner (planning/mission_planner)
  state_,          \* state_.state: "UNSET", "SET" or "ARRIVED"
  odometry_,       \* 0 for nullptr, else the pose of the last odometry
  goal_,           \* the goal held by arrival_checker_
  route_,          \* the route last published on pub_route_
  lastCall,        \* the last callback and how it ended
  pubs,            \* what the last callback published
  map_ptr_,        \* 0 for nullptr, else the vector map last received
  safety           \* the last checkRerouteSafety call: inputs, reads, outcome

missionVars == <<state_, odometry_, goal_, route_, lastCall, pubs, map_ptr_,
                 safety>>

filterVars == <<mutex_, cfg, pc, input, output, noise_points, output_size,
                noise_points_size, ring2indices, walks, published,
                frequency_image, error, oob, divzero, reads, cfgHist,
                azimuth_diffs, set_result>>

vars == <<mutex_, cfg, pc, input, output, noise_points, output_size,
          noise_points_size, ring2indices, walks, published, frequency_image,
          error, oob, divzero, reads, cfgHist, azimuth_diffs, set_result,
          missionVars>>

\* visibility is 1 - filled fraction, kept as vis_num / vis_den.
NothingPublished == [noise |-> FALSE, image |-> FALSE, visibility |-> FALSE,
                     vis_num |-> 0, vis_den |-> 1]

\* Local state of a frame before faster_filter is entered.
FrameReset ==
  /\ input = NoFrame
  /\ output = EmptyCloud
  /\ noise_points = EmptyCloud
  /\ output_size = 0
  /\ noise_points_size = 0
  /\ ring2indices = << >>
  /\ walks = << >>
  /\ published = NothingPublished
  /\ frequency_image = << >>
  /\ error = "none"
  /\ oob = FALSE
  /\ divzero = FALSE
  /\ reads = {}
  /\ cfgHist = {}
  /\ azimuth_diffs = {}

\* Parameter values the launch configuration may declare (lines 48-73).
InitConfigs == { [DefaultConfig EXCEPT !.vertical_bins = 2] }

VisInitConfigs ==
  { [DefaultConfig EXCEPT !.vertical_bins = 2, !.roi_mode = m,
                          !.noise_threshold = t, !.max_azimuth_deg = mx] :
      m \in {"No_ROI", "Fixed_xyz_ROI", "Fixed_azimuth_ROI"},
      t \in {0, 2}, mx \in {225, 135} }

\* No parameter request has been answered yet.
NoResult == [successful |-> FALSE, request |-> << >>]

\* MissionPlanner constructor, lines 69-102.
NoGoal == [set |-> FALSE, uuid |-> 0, pose |-> 0]
NoRoute == [published |-> FALSE, uuid |-> 0, goal_pose |-> 0, segments |-> 0]
NoPubs == [route |-> FALSE, marker |-> FALSE, state |-> FALSE]
NoMsg == [uuid |-> 0, pose |-> 0]
NoSafetyCall ==
  [called |-> FALSE, original |-> << >>, target |-> << >>, reads |-> {},
   outcome |-> "none"]

MissionInit ==
  /\ state_ = "UNSET"
  /\ odometry_ = 0
  /\ goal_ = NoGoal
  /\ route_ = NoRoute
  /\ lastCall = [call |-> "constructor", code |-> "success", arrived |-> FALSE,
                 msg |-> NoMsg]
  /\ pubs = [NoPubs EXCEPT !.state = TRUE]
  /\ map_ptr_ = 0
  /\ safety = NoSafetyCall

Init ==
  /\ mutex_ = "free"
  /\ cfg \in InitConfigs
  /\ pc = "idle"
  /\ FrameReset
  /\ set_result = NoResult
  /\ MissionInit

Read(names) == { <<n, cfg[n]>> : n \in names }

\* Lines 338-360.
setUpPointCloudFormat(in, formatted_points, points_size) ==
  LET d1 == ResizeData(formatted_points.data, points_size, formatted_points.point_step)
      d2 == ResizeData(d1, formatted_points.point_step * in.width,
                       formatted_points.point_step)
  IN  [formatted_points EXCEPT !.data = d2, !.height = 1, !.width = Len(d2)]

\* ---------------------------------------------------------------- actions
\* faster_filter_enter allocating room for half of the frame's points.
faster_filter_enter_HalfCapacity(frame) ==
  /\ pc = "idle"
  /\ mutex_ = "free"
  /\ input' = frame
  /\ output' = [output EXCEPT !.point_step = PointStep,
                  !.data = ResizeData(output.data, PointStep * (frame.width \div 2),
                                      PointStep)]
  /\ noise_points' =
       IF cfg.publish_noise_points
       THEN [noise_points EXCEPT !.point_step = PointStep,
               !.data = ResizeData(noise_points.data,
                                   PointStep * (frame.width \div 2), PointStep)]
       ELSE noise_points
  /\ reads' = Read({"publish_noise_points"})
  /\ cfgHist' = {cfg}
  /\ IF frame.hasFields
     THEN /\ pc' = "partition"
          /\ error' = error
     ELSE /\ pc' = "aborted"
          /\ error' = "out_of_range"
  /\ mutex_' = "faster_filter"
  /\ UNCHANGED <<cfg, output_size, noise_points_size, ring2indices, walks,
                 published, frequency_image, oob, divzero, azimuth_diffs>>
  /\ UNCHANGED <<set_result, missionVars>>

\* Lines 86-111: lock, allocate both buffers, look up the field offsets.
faster_filter_enter(frame) ==
  /\ pc = "idle"
  /\ mutex_ = "free"
  /\ input' = frame
  /\ output' = [output EXCEPT !.point_step = PointStep,
                  !.data = ResizeData(output.data, PointStep * frame.width, PointStep)]
  /\ noise_points' =
       IF cfg.publish_noise_points
       THEN [noise_points EXCEPT !.point_step = PointStep,
               !.data = ResizeData(noise_points.data, PointStep * frame.width, PointStep)]
       ELSE noise_points
  /\ reads' = Read({"publish_noise_points"})
  /\ cfgHist' = {cfg}
  /\ IF frame.hasFields
     THEN /\ pc' = "partition"
          /\ error' = error
     ELSE \* input->fields.at(...) throws; the lock is held until the
          \* exception has left the function
          /\ pc' = "aborted"
          /\ error' = "out_of_range"
  /\ mutex_' = "faster_filter"
  /\ UNCHANGED <<cfg, output_size, noise_points_size, ring2indices, walks,
                 published, frequency_image, oob, divzero, azimuth_diffs>>
  /\ UNCHANGED <<set_result, missionVars>>

\* Lines 113-124: build ring2indices.  A ring id at or past max_rings_num
\* indexes the table out of bounds: the process dies or runs on with the
\* stray write landing outside every list.
faster_filter_partition ==
  /\ pc = "partition"
  /\ ring2indices' = RingPartition(input.points)
  /\ IF \E k \in 1..Len(input.points) : input.points[k].ring >= max_rings_num_
     THEN /\ oob' = TRUE
          /\ pc' \in {"segment", "crashed"}
     ELSE /\ oob' = oob
          /\ pc' = "segment"
  /\ UNCHANGED <<mutex_, cfg, input, output, noise_points, output_size,
                 noise_points_size, walks, published, frequency_image, error,
                 divzero, reads, cfgHist, azimuth_diffs>>
  /\ UNCHANGED <<set_result, missionVars>>

\* Lines 126-252: segment every ring and write the accepted / noise points.
faster_filter_segment ==
  /\ pc = "segment"
  /\ LET acc == SegmentRings(ring2indices, 1, EmptyAcc, cfg, input.need_transform)
     IN  /\ walks' = acc.walks
         /\ output' = [output EXCEPT !.data = Overlay(output.data, acc.out)]
         /\ output_size' = Len(acc.out) * output.point_step
         /\ noise_points' = [noise_points EXCEPT !.data = Overlay(noise_points.data, acc.noise)]
         /\ noise_points_size' = Len(acc.noise) * noise_points.point_step
  /\ reads' = reads \cup Read({"distance_ratio", "num_points_threshold",
                               "object_length_threshold", "publish_noise_points"})
  /\ azimuth_diffs' = PairDiffs(ring2indices)
  /\ pc' = "format"
  /\ UNCHANGED <<mutex_, cfg, input, ring2indices, published, frequency_image,
                 error, oob, divzero, cfgHist>>
  /\ UNCHANGED <<set_result, missionVars>>

\* Lines 254-258: trim and describe both clouds, publish the noise cloud.
faster_filter_format ==
  /\ pc = "format"
  /\ output' = setUpPointCloudFormat(input, output, output_size)
  /\ reads' = reads \cup Read({"publish_noise_points"})
  /\ IF cfg.publish_noise_points
     THEN IF noise_points.point_step = 0
          THEN /\ pc' = "crashed"
               /\ UNCHANGED <<noise_points, published>>
          ELSE /\ noise_points' = setUpPointCloudFormat(input, noise_points, noise_points_size)
               /\ published' = [published EXCEPT !.noise = TRUE]
               /\ pc' = "visibility"
     ELSE /\ pc' = "exit"
          /\ UNCHANGED <<noise_points, published>>
  /\ UNCHANGED <<mutex_, cfg, input, output_size, noise_points_size,
                 ring2indices, walks, frequency_image, error, oob, divzero, cfgHist,
                 azimuth_diffs>>
  /\ UNCHANGED <<set_result, missionVars>>

VisibilityParams ==
  {"vertical_bins", "roi_mode", "min_azimuth_deg", "max_azimuth_deg",
   "max_distance", "noise_threshold", "x_min", "x_max", "y_min", "y_max",
   "z_min", "z_max"}

\* Lines 260-273: histogram, filled fraction, image and visibility messages.
faster_filter_visibility ==
  /\ pc = "visibility"
  /\ reads' = reads \cup Read(VisibilityParams)
  /\ IF \E k \in 1..Len(input.points) : input.points[k].ring >= cfg.vertical_bins
     THEN \* pcl_noise_ring_array.at(p.ring) throws
          /\ pc' = "aborted"
          /\ error' = "out_of_range"
          /\ UNCHANGED <<mutex_, published, frequency_image, divzero>>
     ELSE \E cast \in CastOutcomes(cfg) :
          LET image == FrequencyImage(input.points, cfg, cast)
              binary_image == BinaryImage(image, cfg)
              filled == calculateFilledPixels(binary_image, cfg.vertical_bins, 36)
          IN  /\ frequency_image' = image
              /\ divzero' = (divzero \/
                   (/\ HorizontalResolution(cfg) = 0
                    /\ \E r \in 0..(cfg.vertical_bins - 1) :
                         Len(SelectSeq2(input.points, r)) >= 2))
              /\ published' = [published EXCEPT !.image = TRUE, !.visibility = TRUE,
                                 !.vis_num = filled.den - filled.num,
                                 !.vis_den = filled.den]
              /\ pc' = "exit"
              /\ UNCHANGED <<mutex_, error>>
  /\ UNCHANGED <<cfg, input, output, noise_points, output_size, noise_points_size,
                 ring2indices, walks, oob, cfgHist, azimuth_diffs>>
  /\ UNCHANGED <<set_result, missionVars>>

\* faster_filter returns (line 293) or its exception reaches the caller; the
\* caller is then ready for the next frame with a fresh output cloud.
faster_filter_return ==
  /\ pc \in {"exit", "aborted"}
  /\ pc' = "idle"
  /\ mutex_' = "free"
  /\ input' = NoFrame
  /\ output' = EmptyCloud
  /\ noise_points' = EmptyCloud
  /\ output_size' = 0
  /\ noise_points_size' = 0
  /\ ring2indices' = << >>
  /\ walks' = << >>
  /\ published' = NothingPublished
  /\ frequency_image' = << >>
  /\ error' = "none"
  /\ oob' = FALSE
  /\ divzero' = FALSE
  /\ reads' = {}
  /\ cfgHist' = {}
  /\ azimuth_diffs' = {}
  /\ UNCHANGED cfg
  /\ UNCHANGED <<set_result, missionVars>>

\* Parameters paramCallback copies into members (lines 311-329).
UpdatedParams ==
  {"distance_ratio", "object_length_threshold", "num_points_threshold",
   "publish_noise_points", "vertical_bins", "max_azimuth_diff"}

\* Lines 311-335: copy the recognised parameters of the request p, which
\* maps the names present in the request to their values.
ApplyRequest(p) ==
  /\ cfg' = [n \in DOMAIN cfg |->
               IF n \in DOMAIN p /\ n \in UpdatedParams THEN p[n] ELSE cfg[n]]
  /\ cfgHist' = IF pc \in {"partition", "segment", "format", "visibility"}
                THEN cfgHist \cup {cfg'} ELSE cfgHist
  /\ set_result' = [successful |-> TRUE, request |-> p]
  /\ UNCHANGED <<mutex_, pc, input, output, noise_points, output_size,
                 noise_points_size, ring2indices, walks, published,
                 frequency_image, error, oob, divzero, reads, azimuth_diffs>>
  /\ UNCHANGED missionVars

\* paramCallback without the scoped_lock of line 309.
paramCallback_NoLock(p) == ApplyRequest(p)

\* Lines 306-336: the whole body runs under mutex_.
paramCallback(p) ==
  /\ mutex_ = "free"
  /\ ApplyRequest(p)

\* Values a parameter request may carry.
ParamValues(n) ==
  CASE n = "publish_noise_points" -> BOOLEAN
    [] n = "vertical_bins" -> {0, 1, 2}
    [] n = "num_points_threshold" -> {2, 4}
    [] n = "noise_threshold" -> {0, 2}
    [] OTHER -> {DefaultConfig[n]}

ParamNames == {"publish_noise_points", "num_points_threshold", "noise_threshold"}
VisParamNames == {"publish_noise_points", "vertical_bins"}

\* The requests that carry exactly the names of S.
RECURSIVE RequestsOver(_)
RequestsOver(S) ==
  IF S = {} THEN { << >> }
  ELSE LET n == CHOOSE m \in S : TRUE
       IN  { [m \in S |-> IF m = n THEN v ELSE q[m]] :
               v \in ParamValues(n), q \in RequestsOver(S \ {n}) }

ParamRequestsOf(names) ==
  UNION { RequestsOver(S) : S \in {T \in SUBSET names : Cardinality(T) <= MaxParams} }

NextOf(frames, requests) ==
  \/ \E frame \in frames : faster_filter_enter(frame)
  \/ faster_filter_partition
  \/ faster_filter_segment
  \/ faster_filter_format
  \/ faster_filter_visibility
  \/ faster_filter_return
  \/ \E p \in requests : paramCallback(p)

Next == NextOf(Frames, ParamRequestsOf(ParamNames))

Spec == Init /\ [][Next]_vars

\* The same component under the launch configurations and requests that
\* exercise the visibility estimator.
VisInit ==
  /\ mutex_ = "free"
  /\ cfg \in VisInitConfigs
  /\ pc = "idle"
  /\ FrameReset
  /\ set_result = NoResult
  /\ MissionInit

VisNext == NextOf(VisFrames, ParamRequestsOf(VisParamNames))

SpecVis == VisInit /\ [][VisNext]_vars

\* The same component fed frames whose azimuths wrap around 360 degrees.
WrapNext == NextOf(WrapFrames, ParamRequestsOf({"publish_noise_points"}))

SpecWrap == Init /\ [][WrapNext]_vars

\* --------------------------------------------------------- mission planner
\* Poses are positions along one axis; a request's pose is given in its own
\* frame and tf moves it into the map frame.
MaxPoses == 2
MaxUuids == 2
MaxSegments == 1
Poses == 1..MaxPoses
Uuids == 1..MaxUuids
MapFrameOffset == 10

\* Lines 119-130: tf2::doTransform of the pose into map_frame_.
transform_pose(pose) == pose + MapFrameOffset

\* ArrivalChecker::is_arrived: false without a goal, else the outcome of its
\* distance, angle and stop tests, which the caller cannot see.
is_arrived(goal, tests_pass) == goal.set /\ tests_pass

\* ArrivalChecker::modify_goal: replaces the goal when the uuid matches.
modify_goal(goal, msg) ==
  IF goal.set /\ goal.uuid = msg.uuid
  THEN [goal EXCEPT !.pose = msg.pose]
  ELSE goal

Called(call, code, arrived) ==
  [call |-> call, code |-> code, arrived |-> arrived, msg |-> NoMsg]

\* A service callback that throws: nothing but the response is produced.
ServiceException(call, code) ==
  /\ lastCall' = Called(call, code, FALSE)
  /\ pubs' = NoPubs
  /\ UNCHANGED <<state_, odometry_, goal_, route_>>

\* Lines 138-148 then 150-155: change_route(route); change_state(SET).
RouteAccepted(call, route) ==
  /\ goal_' = [set |-> TRUE, uuid |-> route.uuid, pose |-> route.goal_pose]
  /\ route_' = route
  /\ state_' = "SET"
  /\ pubs' = [route |-> TRUE, marker |-> TRUE, state |-> TRUE]
  /\ lastCall' = Called(call, "success", FALSE)
  /\ UNCHANGED odometry_

\* on_odometry entering ARRIVED without looking at the route state.
on_odometry_NoStateCheck(msg, tests_pass) ==
  /\ odometry_' = msg
  /\ IF is_arrived(goal_, tests_pass) \/ (state_ = "UNSET" /\ tests_pass)
     THEN /\ state_' = "ARRIVED"
          /\ pubs' = [NoPubs EXCEPT !.state = TRUE]
          /\ lastCall' = Called("on_odometry", "success", TRUE)
     ELSE /\ pubs' = NoPubs
          /\ lastCall' = Called("on_odometry", "success", FALSE)
          /\ UNCHANGED state_
  /\ UNCHANGED <<goal_, route_>>
  /\ UNCHANGED <<map_ptr_, safety, filterVars>>

\* Lines 104-117.
on_odometry(msg, tests_pass) ==
  /\ odometry_' = msg
  /\ IF state_ = "SET" /\ is_arrived(goal_, tests_pass)
     THEN /\ state_' = "ARRIVED"
          /\ pubs' = [NoPubs EXCEPT !.state = TRUE]
          /\ lastCall' = Called("on_odometry", "success", TRUE)
     ELSE /\ pubs' = NoPubs
          /\ lastCall' = Called("on_odometry", "success", FALSE)
          /\ UNCHANGED state_
  /\ UNCHANGED <<goal_, route_>>
  /\ UNCHANGED <<map_ptr_, safety, filterVars>>

\* on_clear_route without its call of change_route().
on_clear_route_KeepGoal ==
  /\ state_' = "UNSET"
  /\ pubs' = [NoPubs EXCEPT !.state = TRUE]
  /\ lastCall' = Called("on_clear_route", "success", FALSE)
  /\ UNCHANGED <<odometry_, goal_, route_>>
  /\ UNCHANGED <<map_ptr_, safety, filterVars>>

\* Lines 158-164: change_route(); change_state(UNSET).
on_clear_route ==
  /\ goal_' = NoGoal
  /\ state_' = "UNSET"
  /\ pubs' = [NoPubs EXCEPT !.state = TRUE]
  /\ lastCall' = Called("on_clear_route", "success", FALSE)
  /\ UNCHANGED <<odometry_, route_>>
  /\ UNCHANGED <<map_ptr_, safety, filterVars>>

\* on_set_route handing the goal to the arrival checker before the
\* transform is known to succeed.
on_set_route_EarlyGoal(req, tf_ok, uuid) ==
  /\ IF state_ # "UNSET" THEN ServiceException("on_set_route", "ERROR_ROUTE_EXISTS")
     ELSE IF odometry_ = 0
     THEN ServiceException("on_set_route", "ERROR_PLANNER_UNREADY")
     ELSE IF ~tf_ok
     THEN /\ goal_' = [set |-> TRUE, uuid |-> uuid, pose |-> req.goal]
          /\ lastCall' = Called("on_set_route", "TransformError", FALSE)
          /\ pubs' = NoPubs
          /\ UNCHANGED <<state_, odometry_, route_>>
     ELSE RouteAccepted("on_set_route",
            [published |-> TRUE, uuid |-> uuid,
             goal_pose |-> transform_pose(req.goal), segments |-> req.segments])
  /\ UNCHANGED <<map_ptr_, safety, filterVars>>

\* Lines 167-201.
on_set_route(req, tf_ok, uuid) ==
  /\ IF state_ # "UNSET" THEN ServiceException("on_set_route", "ERROR_ROUTE_EXISTS")
     ELSE IF odometry_ = 0
     THEN ServiceException("on_set_route", "ERROR_PLANNER_UNREADY")
     ELSE IF ~tf_ok THEN ServiceException("on_set_route", "TransformError")
     ELSE RouteAccepted("on_set_route",
            [published |-> TRUE, uuid |-> uuid,
             goal_pose |-> transform_pose(req.goal), segments |-> req.segments])
  /\ UNCHANGED <<map_ptr_, safety, filterVars>>

\* Lines 204-251; planned is the number of segments planner_->plan returns.
on_set_route_points(req, ready, tf_ok, planned, uuid) ==
  /\ IF state_ # "UNSET"
     THEN ServiceException("on_set_route_points", "ERROR_ROUTE_EXISTS")
     ELSE IF ~ready \/ odometry_ = 0
     THEN ServiceException("on_set_route_points", "ERROR_PLANNER_UNREADY")
     ELSE IF ~tf_ok THEN ServiceException("on_set_route_points", "TransformError")
     ELSE IF planned = 0
     THEN ServiceException("on_set_route_points", "ERROR_PLANNER_FAILED")
     ELSE RouteAccepted("on_set_route_points",
            [published |-> TRUE, uuid |-> uuid,
             goal_pose |-> transform_pose(req.goal), segments |-> planned])
  /\ UNCHANGED <<map_ptr_, safety, filterVars>>

\* Lines 362-366.
on_modified_goal(msg) ==
  /\ goal_' = modify_goal(goal_, msg)
  /\ pubs' = NoPubs
  /\ lastCall' = [Called("on_modified_goal", "success", FALSE) EXCEPT !.msg = msg]
  /\ UNCHANGED <<state_, odometry_, route_>>
  /\ UNCHANGED <<map_ptr_, safety, filterVars>>

\* Lines 356-359.
onMap(msg) ==
  /\ map_ptr_' = msg
  /\ lastCall' = Called("onMap", "success", FALSE)
  /\ pubs' = NoPubs
  /\ UNCHANGED <<state_, odometry_, goal_, route_, safety>>
  /\ UNCHANGED filterVars

\* --- checkRerouteSafety, lines 253-354.  A route is the sequence of its
\* segments, a segment the sequence of its primitive ids; indices are 0-based
\* as in the code.
MaxRouteLen == 2
SegmentPool == { << >>, <<1>>, <<2>>, <<2, 1>> }
Routes == UNION { [1..n -> SegmentPool] : n \in 0..MaxRouteLen }

\* Lines 263-277: is_same is overwritten for each original primitive, so
\* the last one decides.
hasSamePrimitives(original_primitives, target_primitives) ==
  IF Len(original_primitives) # Len(target_primitives) THEN FALSE
  ELSE IF Len(original_primitives) = 0 THEN FALSE
  ELSE \E k \in 1..Len(target_primitives) :
         target_primitives[k] = original_primitives[Len(original_primitives)]

\* Lines 280-287: start_idx and the indices the search reads.
Matches(original, target) ==
  { i \in 0..(Len(original) - 1) : hasSamePrimitives(original[i + 1], target[1]) }

StartIdx(original, target) ==
  IF Matches(original, target) = {} THEN Len(original)
  ELSE CHOOSE i \in Matches(original, target) :
         \A j \in Matches(original, target) : i <= j

StartReads(original, target) ==
  { i \in 0..(Len(original) - 1) : i <= StartIdx(original, target) }

\* Lines 290-303: end_idx and the indices read, from target index i on.
RECURSIVE EndLoop(_, _, _, _, _)
EndLoop(original, target, start_idx, i, used) ==
  IF ~(i < Len(target)) THEN [end_idx |-> start_idx, reads |-> used]
  ELSE LET original_route_idx == start_idx + i
       IN  IF original_route_idx > Len(original) - 1
           THEN [end_idx |-> start_idx, reads |-> used]
           ELSE IF ~hasSamePrimitives(original[original_route_idx + 1], target[i + 1])
           THEN [end_idx |-> original_route_idx + 1,
                 reads |-> used \cup {original_route_idx}]
           ELSE EndLoop(original, target, start_idx, i + 1,
                        used \cup {original_route_idx})

\* Lines 333-345: the indices read from i on, stopping at empty primitives.
RECURSIVE LengthLoop(_, _, _, _)
LengthLoop(original, i, end_idx, used) ==
  IF ~(i < end_idx) THEN used
  ELSE IF Len(original[i + 1]) = 0 THEN used \cup {i}
  ELSE LengthLoop(original, i + 1, end_idx, used \cup {i})

\* Lines 253-354.  closest is the outcome of getClosestLanelet and safe the
\* outcome of the final length test, both decided by the lanelet map.
checkRerouteSafety(original_route, target_route, closest, safe) ==
  /\ ~safety.called
  /\ safety' =
       LET Call(used, outcome) ==
             [called |-> TRUE, original |-> original_route,
              target |-> target_route, reads |-> used, outcome |-> outcome]
       IN  IF \/ Len(original_route) = 0 \/ Len(target_route) = 0
              \/ map_ptr_ = 0 \/ odometry_ = 0
           THEN Call({}, "false")
           ELSE LET start_idx == StartIdx(original_route, target_route)
                    e == EndLoop(original_route, target_route, start_idx, 1, {})
                    used == StartReads(original_route, target_route)
                               \cup e.reads \cup {start_idx}
                IN  IF ~(start_idx < Len(original_route))
                    THEN \* original_route.segments.at(start_idx) throws
                         Call(used, "out_of_range")
                    ELSE IF ~closest THEN Call(used, "false")
                    ELSE Call(LengthLoop(original_route, start_idx + 1, e.end_idx,
                                         used),
                              IF safe THEN "true" ELSE "false")
  /\ UNCHANGED <<state_, odometry_, goal_, route_, lastCall, pubs, map_ptr_>>
  /\ UNCHANGED filterVars

\* The caller has taken the result (or the exception) of the call.
checkRerouteSafety_return ==
  /\ safety.called
  /\ safety' = NoSafetyCall
  /\ UNCHANGED <<state_, odometry_, goal_, route_, lastCall, pubs, map_ptr_>>
  /\ UNCHANGED filterVars

SetRouteRequests == [goal : Poses, segments : 0..MaxSegments]
SetRoutePointsRequests == [goal : Poses]
ModifiedGoals ==
  [uuid : Uuids, pose : {transform_pose(g) : g \in Poses} \cup {MapFrameOffset}]

MissionNext ==
  \/ \E msg \in Poses, tests_pass \in BOOLEAN : on_odometry(msg, tests_pass)
  \/ on_clear_route
  \/ \E req \in SetRouteRequests, tf_ok \in BOOLEAN, uuid \in Uuids :
       on_set_route(req, tf_ok, uuid)
  \/ \E req \in SetRoutePointsRequests, ready \in BOOLEAN, tf_ok \in BOOLEAN,
        planned \in 0..MaxSegments, uuid \in Uuids :
       on_set_route_points(req, ready, tf_ok, planned, uuid)
  \/ \E msg \in ModifiedGoals : on_modified_goal(msg)
  \/ onMap(1)

SpecMission == Init /\ [][MissionNext]_vars

\* The planner receiving its map and odometry and being asked about reroutes.
RerouteNext ==
  \/ onMap(1)
  \/ \E msg \in Poses : on_odometry(msg, FALSE)
  \/ \E original_route \in Routes, target_route \in Routes,
        closest \in BOOLEAN, safe \in BOOLEAN :
       checkRerouteSafety(original_route, target_route, closest, safe)
  \/ checkRerouteSafety_return

SpecReroute == Init /\ [][RerouteNext]_vars

\* ================================================================ claims
Segmented == pc \in {"format", "visibility", "exit"}

WalksOfRing(r) == SelectSeq(walks, LAMBDA w : w.ring = r)

ContinuousUpTo(s, last) ==
  \A k \in 1..(last - 1) : Continuity(s[k], s[k + 1], cfg)

RejectedWalks == SelectSeq(walks, LAMBDA w : ~w.kept)

\* C1: for every ring with n >= 2 points the walks handed to isCluster are
\* disjoint, in increasing order, without gaps, and cover positions 0..n-1.
C1_WalksCoverRing ==
  Segmented =>
    \A r \in 1..Len(ring2indices) :
      LET n == Len(ring2indices[r])
          ws == WalksOfRing(r - 1)
      IN  n >= 2 =>
            /\ Len(ws) >= 1
            /\ ws[1].first = 0
            /\ ws[Len(ws)].last = n - 1
            /\ \A j \in 1..Len(ws) :
                 /\ ws[j].first <= ws[j].last
                 /\ j < Len(ws) => ws[j + 1].first = ws[j].last + 1

\* C2: a single-ring frame of n >= 2 points that is continuous throughout
\* gives exactly one walk [0, n-1]; when that walk is kept the accepted
\* buffer holds n points and the rejected buffer none.
C2_OneWalkSpansRing ==
  (/\ Segmented
   /\ Len(input.points) >= 2
   /\ \E r \in 1..Len(ring2indices) : ring2indices[r] = input.points
   /\ ContinuousUpTo(input.points, Len(input.points)))
  => /\ Len(walks) = 1
     /\ walks[1].first = 0
     /\ walks[1].last = Len(input.points) - 1
     /\ walks[1].kept => /\ output_size = Len(input.points) * PointStep
                         /\ noise_points_size = 0

\* C3: a single-ring frame of n >= 2 points whose only continuity failure is
\* between its last two points gives exactly the walks [0, n-2] and
\* [n-1, n-1]; when both are rejected and noise output is on, nothing is
\* written to the accepted buffer and two points to the rejected buffer.
C3_BreakBeforeLastPoint ==
  LET n == Len(input.points)
  IN  (/\ Segmented
       /\ n >= 2
       /\ \E r \in 1..Len(ring2indices) : ring2indices[r] = input.points
       /\ ContinuousUpTo(input.points, n - 1)
       /\ ~Continuity(input.points[n - 1], input.points[n], cfg))
      => /\ Len(walks) = 2
         /\ walks[1].first = 0 /\ walks[1].last = n - 2
         /\ walks[2].first = n - 1 /\ walks[2].last = n - 1
         /\ (~walks[1].kept /\ ~walks[2].kept /\ cfg.publish_noise_points)
              => /\ output_size = 0
                 /\ noise_points_size = 2 * PointStep

\* C4: with publish_noise_points on, every rejected walk adds exactly one
\* point, its first point, to the noise buffer: the points written there
\* are the first points of the rejected walks, one each, in walk order.
C4_OneNoisePointPerRejectedWalk ==
  (Segmented /\ cfg.publish_noise_points) =>
    /\ noise_points_size = Len(RejectedWalks) * PointStep
    /\ Len(noise_points.data) >= Len(RejectedWalks)
    /\ \A j \in 1..Len(RejectedWalks) :
         LET w == RejectedWalks[j]
             first_point == ring2indices[w.ring + 1][w.first + 1]
         IN  noise_points.data[j] = WritePoint(first_point, first_point, input.need_transform)

\* C5: when faster_filter returns, the accepted cloud's data length is the
\* number of bytes written and its width the number of points written; the
\* same holds for the noise cloud that was published.
C5_BuffersTrimmed ==
  /\ pc = "exit" =>
       /\ DataBytes(output) = output_size
       /\ output.width * output.point_step = output_size
  /\ published.noise =>
       /\ DataBytes(noise_points) = noise_points_size
       /\ noise_points.width * noise_points.point_step = noise_points_size

\* C6: every parameter value read while one frame is processed comes from a
\* single parameter state that existed during the frame, and the frame
\* holds mutex_ for as long as it is in flight.
C6_SingleConfigPerFrame ==
  /\ pc \in {"partition", "segment", "format", "visibility", "exit", "aborted"}
       => /\ mutex_ = "faster_filter"
          /\ \E c \in cfgHist : \A rd \in reads : c[rd[1]] = rd[2]
  /\ pc = "idle" => reads = {}

\* A frame that ran to its end, visibility included, under a parameter
\* state that only paramCallback can have produced.
C6_Witness ==
  /\ pc = "exit"
  /\ published.visibility
  /\ cfg.publish_noise_points
  /\ cfg.num_points_threshold = 2
  /\ <<"num_points_threshold", 2>> \in reads

\* C7: a frame aborted with an error leaves no partial output: the caller's
\* output cloud is as before the call and nothing was published.
C7_NoPartialOutputOnAbort ==
  pc = "aborted" =>
    /\ output = EmptyCloud
    /\ ~published.noise
    /\ ~published.image
    /\ ~published.visibility

\* C8: a frame with a ring id at or past the configured bound ends in an
\* error, and no per-ring table is indexed at or past its length.
C8_RingBoundEnforced ==
  /\ ~oob
  /\ (/\ pc \in {"segment", "format", "visibility", "exit"}
      /\ \E k \in 1..Len(input.points) : input.points[k].ring >= max_rings_num_)
       => FALSE
  /\ (/\ pc = "exit" /\ published.visibility
      /\ \E k \in 1..Len(input.points) : input.points[k].ring >= cfg.vertical_bins)
       => FALSE

\* C9: with a degenerate histogram configuration (horizontal_resolution 0)
\* createBinaryImage ends in a configuration error and never evaluates a
\* division by horizontal_resolution.
C9_DegenerateConfigRejected ==
  /\ ~divzero
  /\ published.visibility => HorizontalResolution(cfg) # 0

\* C10: with vertical_bins >= 1 the filled cells number between 0 and
\* vertical_bins * horizontal_bins, so the visibility lies in [0, 1]; it is
\* 0 when every cell is filled and 1 when none is.
FilledCells ==
  {rc \in (DOMAIN frequency_image) \X (0..(horizontal_bins - 1)) :
     InRange(frequency_image[rc[1]][rc[2]], cfg)}

C10_VisibilityInUnitInterval ==
  (published.visibility /\ cfg.vertical_bins >= 1) =>
    LET cells == cfg.vertical_bins * horizontal_bins
    IN  /\ Cardinality(FilledCells) \in 0..cells
        /\ published.vis_den > 0
        /\ 0 <= published.vis_num /\ published.vis_num <= published.vis_den
        /\ Cardinality(FilledCells) = cells => published.vis_num = 0
        /\ Cardinality(FilledCells) = 0 => published.vis_num = published.vis_den

\* A visibility published for a two-row histogram with every cell filled.
C10_Witness ==
  /\ published.visibility
  /\ cfg.vertical_bins = 2
  /\ Len(input.points) >= 2
  /\ Cardinality(FilledCells) = 2 * horizontal_bins

\* C11: for every consecutive pair of a ring whose raw azimuths both lie in
\* [0, 36000), the azimuth_diff used by the continuity test lies in
\* [0, 36000); current = 35950, next = 50 gives 100.
C11_AzimuthDiffInRange ==
  \A d \in azimuth_diffs :
    (d[1] >= 0 /\ d[1] < Cd(FullCircle) /\ d[2] >= 0 /\ d[2] < Cd(FullCircle)) =>
      /\ d[3] >= 0
      /\ d[3] < Cd(FullCircle)
      /\ (d[1] = Cd(35950) /\ d[2] = Cd(50)) => d[3] = Cd(100)

\* The points of ring r in the frame, by position in the cloud.
RingPositions(r) == {k \in 1..Len(input.points) : input.points[k].ring = r}

\* The sector whose azimuth interval contains the point.
SectorOf(p) ==
  (p.azimuth - Cd(AzimuthWindow(cfg).min)) \div Cd(HorizontalResolution(cfg))

HistogramBuilt == published.visibility /\ HorizontalResolution(cfg) # 0

\* C12: in the azimuth-distance ROI mode every point with azimuth inside the
\* window and distance below max_distance is counted in the cell of the
\* sector that contains its azimuth, whatever its position in the ring, and a
\* point outside the window is counted in no cell.
C12_AzimuthRoiCounted ==
  (HistogramBuilt /\ roi_mode_map(cfg.roi_mode) = 2) =>
    \A r \in 0..(cfg.vertical_bins - 1) : \A i \in 0..(horizontal_bins - 1) :
      frequency_image[r][i] =
        Min2(MaxCellCount,
             Cardinality({k \in RingPositions(r) :
                /\ input.points[k].azimuth > Cd(AzimuthWindow(cfg).min)
                /\ input.points[k].azimuth < Cd(AzimuthWindow(cfg).max)
                /\ input.points[k].distance < cfg.max_distance
                /\ SectorOf(input.points[k]) = i}))

\* Ring lists (1-based table rows) with at least two points in which no
\* consecutive pair satisfies the continuity predicate.
NeverContinuous(r) ==
  /\ Len(ring2indices[r]) >= 2
  /\ \A k \in 1..(Len(ring2indices[r]) - 1) :
       ~Continuity(ring2indices[r][k], ring2indices[r][k + 1], cfg)

TailClosed(r) == \E k \in 1..Len(WalksOfRing(r - 1)) : WalksOfRing(r - 1)[k].tail

AzimuthOrdered(r) ==
  \A j, k \in RingPositions(r) :
    j < k => input.points[j].azimuth <= input.points[k].azimuth

\* C14: for every ring in increasing azimuth order and every sector, the
\* cell (ring, sector) holds min(255, number of the ring's points whose
\* azimuth falls in the sector and that satisfy the active ROI predicate);
\* with no ROI the cells of a ring sum to the ring's point count.
C14_CellCountsMatchSectors ==
  HistogramBuilt =>
    \A r \in 0..(cfg.vertical_bins - 1) :
      AzimuthOrdered(r) =>
        \A i \in 0..(horizontal_bins - 1) :
          frequency_image[r][i] =
            Min2(MaxCellCount,
                 Cardinality({k \in RingPositions(r) :
                    /\ SectorOf(input.points[k]) = i
                    /\ RoiPredicate(input.points[k], cfg)}))

SetRouteCalls == {"on_set_route", "on_set_route_points"}

\* C15: the route state changes only UNSET -> SET by a successful
\* on_set_route or on_set_route_points, SET -> ARRIVED by on_odometry when
\* the arrival checker reports arrival, and any state -> UNSET by
\* on_clear_route; a set-route call is accepted only in UNSET.
C15_RouteStateTransitions ==
  [][ /\ state_' # state_ =>
           \/ /\ state_ = "UNSET" /\ state_' = "SET"
              /\ lastCall'.call \in SetRouteCalls
              /\ lastCall'.code = "success"
           \/ /\ state_ = "SET" /\ state_' = "ARRIVED"
              /\ lastCall'.call = "on_odometry"
              /\ lastCall'.arrived
           \/ /\ state_' = "UNSET"
              /\ lastCall'.call = "on_clear_route"
      /\ (lastCall' # lastCall /\ lastCall'.call \in SetRouteCalls
            /\ lastCall'.code = "success") => state_ = "UNSET"
      /\ (lastCall' # lastCall /\ lastCall'.call = "on_clear_route") =>
           state_' = "UNSET"
    ]_vars

\* ARRIVED reached by a vehicle whose route was set after its odometry.
C15_Witness ==
  /\ state_ = "ARRIVED"
  /\ lastCall.call = "on_odometry"
  /\ lastCall.arrived
  /\ odometry_ # 0
  /\ route_.published

\* C16: a failing on_set_route or on_set_route_points leaves the route state,
\* the arrival checker's goal and the stored odometry unchanged and
\* publishes no route, marker or state; while the state is SET or ARRIVED
\* the call fails with ERROR_ROUTE_EXISTS.
C16_FailedSetRouteHasNoEffect ==
  [][ (lastCall'.call \in SetRouteCalls) =>
        /\ lastCall'.code # "success" =>
             /\ state_' = state_
             /\ goal_' = goal_
             /\ odometry_' = odometry_
             /\ route_' = route_
             /\ pubs' = NoPubs
        /\ state_ \in {"SET", "ARRIVED"} => lastCall'.code = "ERROR_ROUTE_EXISTS"
    ]_vars

\* A set-route call that failed in the transform with odometry present and
\* no route set, and one refused because a route exists.
C16_Witness ==
  /\ lastCall.call \in SetRouteCalls
  /\ \/ lastCall.code = "TransformError" /\ state_ = "UNSET" /\ odometry_ # 0
     \/ lastCall.code = "ERROR_ROUTE_EXISTS" /\ state_ = "ARRIVED"
  /\ pubs = NoPubs

\* The points of walk w, in acquisition order, as accepted points.
WalkPoints(w) ==
  [j \in 1..(w.last - w.first + 1) |->
     WritePoint(ring2indices[w.ring + 1][w.first + j],
                ring2indices[w.ring + 1][w.first + j], input.need_transform)]

\* The points of the kept walks from walk k on, in the order of the calls.
RECURSIVE KeptPoints(_)
KeptPoints(k) ==
  IF k > Len(walks) THEN << >>
  ELSE (IF walks[k].kept THEN WalkPoints(walks[k]) ELSE << >>) \o KeptPoints(k + 1)

C18_WriteOffsetsWithinCapacity ==
  (pc = "format" /\ ~oob) =>
    /\ DataBytes(output) = PointStep * input.width
    /\ output_size <= DataBytes(output)
    /\ noise_points_size <= DataBytes(noise_points)

\* Noise publishing on, a three-point frame, two points written to the
\* noise buffer and one kept walk in the accepted buffer.
C18_Witness ==
  /\ pc = "format"
  /\ ~oob
  /\ cfg.publish_noise_points
  /\ input.width = MaxPoints
  /\ noise_points_size >= 2 * PointStep

\* Cells of the histogram whose clamped count exceeds noise_threshold.
CellsAboveThreshold ==
  {rc \in (DOMAIN frequency_image) \X (0..(horizontal_bins - 1)) :
     Min2(frequency_image[rc[1]][rc[2]], MaxCellCount) > cfg.noise_threshold}

\* C19: a cell is counted as filled if and only if its clamped count is
\* strictly greater than noise_threshold; a count equal to noise_threshold,
\* and a count of 0 under noise_threshold = 0, is not filled.
C19_FilledIffAboveThreshold ==
  published.visibility =>
    published.vis_den - published.vis_num = Cardinality(CellsAboveThreshold)

\* The configured box of the fixed-xyz ROI mode.
InsideBox(p) ==
  /\ cfg.x_min < p.x /\ p.x < cfg.x_max
  /\ cfg.y_min < p.y /\ p.y < cfg.y_max
  /\ cfg.z_min < p.z /\ p.z < cfg.z_max

\* What the scan counts when every point it visits is counted: the same
\* scan with the ROI switched off.
VisitedCounts ==
  LET c == [cfg EXCEPT !.roi_mode = "No_ROI"]
  IN  FrequencyImage(input.points, c, CHOOSE cast \in CastOutcomes(c) : TRUE)

\* C20: in the fixed-xyz ROI mode a point visited by the scan is counted iff
\* it lies inside the box; so a frame whose points all lie inside the box
\* gets the counts of the unconditional scan, and a frame whose points all
\* lie outside gets empty cells.
C20_XyzRoiCountsInsideBox ==
  (HistogramBuilt /\ roi_mode_map(cfg.roi_mode) = 1) =>
    /\ (\A k \in 1..Len(input.points) : InsideBox(input.points[k])) =>
         frequency_image = VisitedCounts
    /\ (\A k \in 1..Len(input.points) : ~InsideBox(input.points[k])) =>
         \A r \in DOMAIN frequency_image : frequency_image[r] = EmptyRow

\* C21: every frame that faster_filter processes to completion yields a
\* visibility scalar, whether or not publish_noise_points is enabled; only
\* the noise cloud and the image are optional.
C21_VisibilityForEveryCompletedFrame ==
  pc = "exit" => published.visibility

\* C22: once paramCallback has answered a request as successful, the value
\* the algorithm reads for every option named in the request is the
\* requested one, in the parameter members and in every read of the frame
\* being processed.
C22_AcknowledgedUpdateIsUsed ==
  set_result.successful =>
    \A n \in DOMAIN set_result.request :
      /\ cfg[n] = set_result.request[n]
      /\ \A rd \in reads : rd[1] = n => rd[2] = set_result.request[n]

RouteHeld(s) == s \in {"SET", "ARRIVED"}

C24_RerouteIndicesInBounds ==
  (/\ safety.called
   /\ Len(safety.original) > 0 /\ Len(safety.target) > 0
   /\ map_ptr_ # 0 /\ odometry_ # 0) =>
    \A i \in safety.reads : i < Len(safety.original)

====
